---------------------------- MODULE Spec2Model ----------------------------
(***************************************************************************)
(* Time-of-day lighting of acg-tokyo-tower (src/main.js, final variant,   *)
(* lines 1589-2080): the preset commands, the transition record, the      *)
(* per-frame advance of CurrentState and the binders that read it.        *)
(*                                                                         *)
(* JavaScript numbers are binary floating point, rounded to nearest-even  *)
(* after every operation.  The model keeps that arithmetic, with a        *)
(* significand of MantBits bits instead of 53 and no exponent limits: a   *)
(* number is <<m, e>>, meaning m * 2^e, with m = 0 or                     *)
(* 2^(MantBits-1) <= |m| < 2^MantBits.                                    *)
(***************************************************************************)
EXTENDS Integers, Sequences, FiniteSets, TLC

\* ------------------------------------------------------------------ bounds
MantBits == 11        \* significand bits of the modelled number format
TimeStep == 1200      \* milliseconds the clock advances per clock step
MaxClockSteps == 4    \* clock steps explored
MaxCommands == 2      \* key presses explored after startup
MaxCalls == 1         \* commands or direct startTransition calls explored
                      \* by the specifications other than Spec, SpecFrames
MaxKelvinSteps == 90  \* kelvinToRGB arguments explored: up to 500 x this
MaxShaderSteps == 3   \* half seconds of uTime explored by the window shader
MaxSceneFrames == 3   \* frames explored with a loading asset
MaxElevSteps == 130    \* quarter degrees of elevation explored, either side of 0

\* ------------------------------------------------- floating-point numbers
Abs(n) == IF n < 0 THEN -n ELSE n
Sgn(n) == IF n < 0 THEN -1 ELSE IF n > 0 THEN 1 ELSE 0
Max(a, b) == IF a >= b THEN a ELSE b

RECURSIVE BitLen(_)
BitLen(n) == IF n = 0 THEN 0 ELSE 1 + BitLen(n \div 2)

Zero == <<0, 0>>

\* n >= 0 shifted right by k >= 1 bits, ties to even
RoundShift(n, k) ==
  LET q == n \div (2^k)
      r == n % (2^k)
      h == 2^(k-1)
  IN IF r > h \/ (r = h /\ q % 2 = 1) THEN q + 1 ELSE q

\* the number nearest to the exact value n * 2^e: the magnitude a of n has
\* L bits, and the bits beyond MantBits are rounded away
Rounded(n, e, k, q) ==
  IF q = 2^MantBits
  THEN <<Sgn(n) * 2^(MantBits-1), e + k + 1>>
  ELSE <<Sgn(n) * q, e + k>>
Sized(n, e, a, L) ==
  IF a = 0 THEN Zero
  ELSE IF L <= MantBits
       THEN <<n * 2^(MantBits - L), e - (MantBits - L)>>
       ELSE Rounded(n, e, L - MantBits, RoundShift(a, L - MantBits))
FRound(n, e) == Sized(n, e, Abs(n), BitLen(Abs(n)))

FNeg(x) == <<-x[1], x[2]>>

\* x + y, rounded once: hi has the larger exponent
Aligned(hi, lo, d) ==
  IF d > MantBits + 1 THEN hi ELSE FRound(hi[1] * 2^d + lo[1], lo[2])
Ordered(hi, lo) == Aligned(hi, lo, hi[2] - lo[2])
FAdd(x, y) ==
  IF x[1] = 0 THEN y
  ELSE IF y[1] = 0 THEN x
  ELSE Ordered(IF x[2] >= y[2] THEN x ELSE y,
               IF x[2] >= y[2] THEN y ELSE x)

FSub(x, y) == FAdd(x, FNeg(y))

\* x * y, rounded once
FMul(x, y) == FRound(x[1] * y[1], x[2] + y[2])

\* bits quotient bits of rem / d (0 <= rem < d), most significant first,
\* with the last bit forced to 1 when the division is inexact (sticky)
RECURSIVE LongDiv(_, _, _, _)
LongDiv(rem, d, bits, acc) ==
  IF bits = 0 THEN 2 * acc + (IF rem = 0 THEN 0 ELSE 1)
  ELSE LET r2 == 2 * rem
       IN IF r2 >= d THEN LongDiv(r2 - d, d, bits - 1, 2 * acc + 1)
                     ELSE LongDiv(r2, d, bits - 1, 2 * acc)

\* least s with n * 2^s >= d (n > 0)
RECURSIVE ScaleUp(_, _)
ScaleUp(n, d) == IF n >= d THEN 0 ELSE 1 + ScaleUp(2 * n, d)

\* the number nearest to the exact quotient n / d of two integers, d > 0:
\* n scaled by 2^s to a quotient q of at least one bit, then bits more
\* quotient bits
Digits(sign, rem, d, bits, q, e) ==
  FRound(sign * LongDiv(rem, d, bits, q), e - (bits + 1))
Whole(n, d, s, a, q) ==
  Digits(Sgn(n), a % d, d, Max(0, MantBits + 2 - BitLen(q)), q, -s)
Scaled(n, d, s) == Whole(n, d, s, Abs(n) * 2^s, (Abs(n) * 2^s) \div d)
FRatio(n, d) ==
  IF n = 0 THEN Zero ELSE Scaled(n, d, ScaleUp(Abs(n), d))

\* x / y, rounded once (y # 0)
FDiv(x, y) ==
  Digits(Sgn(x[1]) * Sgn(y[1]), Abs(x[1]) % Abs(y[1]), Abs(y[1]),
         MantBits + 2, Abs(x[1]) \div Abs(y[1]), x[2] - y[2])

FLt(x, y) == FSub(x, y)[1] < 0
FLe(x, y) == FSub(x, y)[1] <= 0
FGe(x, y) == FLe(y, x)
FGt(x, y) == FLt(y, x)

\* a numeric literal n/d of the source text, as the number the engine stores
Lit(n, d) == FRatio(n, d)
\* Math.log, Math.exp, Math.pow and Math.sin are implementation-approximated
\* functions; the model computes them in its own arithmetic, by argument
\* reduction and a power series
LN2 == Lit(693147, 1000000)
HalfPi == Lit(1570796, 1000000)

\* x rounded to the nearest integer, as an integer
FNearest(x) ==
  IF x[2] >= 0 THEN x[1] * 2^(x[2])
  ELSE IF -x[2] > 2 * MantBits THEN 0
  ELSE (2 * x[1] + 2^(-x[2])) \div 2^(1 - x[2])

\* natural logarithm of x > 0: x = f * 2^k with f in [0.707, 1.414),
\* ln f = 2 atanh((f - 1) / (f + 1))
LnPoly(s) == FAdd(Lit(1, 3), FMul(s, FAdd(Lit(1, 5), FMul(s, Lit(1, 7)))))
LnAtanh(z, s) ==
  IF z[1] = 0 THEN Zero
  ELSE FMul(FRound(2, 0), FMul(z, FAdd(FRound(1, 0), FMul(s, LnPoly(s)))))
LnSum(k, z) == FAdd(FMul(FRound(k, 0), LN2), LnAtanh(z, FMul(z, z)))
LnSplit(f, k) ==
  LnSum(k, FDiv(FSub(f, FRound(1, 0)), FAdd(f, FRound(1, 0))))
LnNorm(x, half, low) ==
  LnSplit(IF low THEN <<x[1], 1 - MantBits>> ELSE half,
          IF low THEN x[2] + MantBits - 1 ELSE x[2] + MantBits)
FLn(x) ==
  LnNorm(x, <<x[1], -MantBits>>, FLt(<<x[1], -MantBits>>, Lit(7071, 10000)))

\* e^x: x = k ln 2 + r with |r| <= (ln 2) / 2, e^r by its Taylor series
ExpTerm(r, c, t) == FAdd(FRound(1, 0), FMul(FMul(r, c), t))
ExpTaylor(r) ==
  FAdd(FRound(1, 0),
       FMul(r, ExpTerm(r, Lit(1, 2), ExpTerm(r, Lit(1, 3),
               ExpTerm(r, Lit(1, 4), ExpTerm(r, Lit(1, 5),
               FAdd(FRound(1, 0), FMul(r, Lit(1, 6)))))))))
ExpScale(k, er) == <<er[1], er[2] + k>>
ExpReduce(x, k) == ExpScale(k, ExpTaylor(FSub(x, FMul(FRound(k, 0), LN2))))
FExp(x) == ExpReduce(x, IF x[1] = 0 THEN 0 ELSE FNearest(FDiv(x, LN2)))

\* sin x: x = q (pi / 2) + r with |r| <= pi / 4
SinTerm(s, c, t) == FSub(FRound(1, 0), FMul(FMul(s, c), t))
SinSeries(r, s) ==
  FMul(r, SinTerm(s, Lit(1, 6), SinTerm(s, Lit(1, 20),
          FSub(FRound(1, 0), FMul(s, Lit(1, 42))))))
CosSeries(s) ==
  SinTerm(s, Lit(1, 2), SinTerm(s, Lit(1, 12),
          FSub(FRound(1, 0), FMul(s, Lit(1, 30)))))
SinQuadrant(q, sn, cs) ==
  IF q % 4 = 0 THEN sn
  ELSE IF q % 4 = 1 THEN cs
  ELSE IF q % 4 = 2 THEN FNeg(sn) ELSE FNeg(cs)
SinArg(q, r) ==
  SinQuadrant(q, SinSeries(r, FMul(r, r)), CosSeries(FMul(r, r)))
SinReduce(x, q) == SinArg(q, FSub(x, FMul(FRound(q, 0), HalfPi)))
FSin(x) == SinReduce(x, IF x[1] = 0 THEN 0 ELSE FNearest(FDiv(x, HalfPi)))

\* ------------------------------------------- JavaScript values and operators
\* undefined, NaN and the two infinities are values outside the normalised
\* numbers; IsNum holds of the finite numbers
Undefined == <<0, 1>>
NaN == <<0, 2>>
Infinity == <<0, 3>>
NegInfinity == <<0, 4>>
IsNum(x) == x[1] # 0 \/ x[2] = 0
IsInf(x) == x = Infinity \/ x = NegInfinity
\* the sign of a finite number or an infinity
SignOf(x) == IF x = Infinity THEN 1 ELSE IF x = NegInfinity THEN -1 ELSE Sgn(x[1])
Signed(sign) == IF sign < 0 THEN NegInfinity ELSE Infinity
Neg(x) == IF IsNum(x) THEN FNeg(x) ELSE IF IsInf(x) THEN Signed(-SignOf(x)) ELSE NaN

Add(x, y) ==
  IF IsNum(x) /\ IsNum(y) THEN FAdd(x, y)
  ELSE IF IsInf(x) /\ (IsNum(y) \/ y = x) THEN x
  ELSE IF IsInf(y) /\ IsNum(x) THEN y
  ELSE NaN
Sub(x, y) == Add(x, Neg(y))
Mul(x, y) ==
  IF IsNum(x) /\ IsNum(y) THEN FMul(x, y)
  ELSE IF (IsInf(x) \/ IsNum(x)) /\ (IsInf(y) \/ IsNum(y))
          /\ SignOf(x) # 0 /\ SignOf(y) # 0
       THEN Signed(SignOf(x) * SignOf(y))
  ELSE NaN
\* x / y: a finite quotient, or x / 0 and the quotients of infinities
Div(x, y) ==
  IF IsNum(x) /\ IsNum(y)
  THEN (IF y[1] # 0 THEN FDiv(x, y)
        ELSE IF x[1] = 0 THEN NaN ELSE Signed(Sgn(x[1])))
  ELSE IF IsInf(x) /\ IsNum(y) THEN Signed(SignOf(x) * (IF y[1] < 0 THEN -1 ELSE 1))
  ELSE IF IsNum(x) /\ IsInf(y) THEN Zero
  ELSE NaN
Lt(x, y) ==
  IF IsNum(x) /\ IsNum(y) THEN FLt(x, y)
  ELSE /\ (IsNum(x) \/ IsInf(x)) /\ (IsNum(y) \/ IsInf(y))
       /\ x # y
       /\ (x = NegInfinity \/ y = Infinity)
Le(x, y) ==
  IF IsNum(x) /\ IsNum(y) THEN FLe(x, y)
  ELSE /\ (IsNum(x) \/ IsInf(x)) /\ (IsNum(y) \/ IsInf(y))
       /\ (x = NegInfinity \/ y = Infinity)
Gt(x, y) == Lt(y, x)
Ge(x, y) == Le(y, x)

\* a ?? b
Coalesce(a, b) == IF a = Undefined THEN b ELSE a

FromInt(n) == FRound(n, 0)
One == FromInt(1)

\* new THREE.Color(0xRRGGBB): one stored channel per byte, byte / 255
Color(r, g, b) == <<FRatio(r, 255), FRatio(g, 255), FRatio(b, 255)>>

\* ----------------------------------------------------- smoothing primitives
\* const lerp = (a, b, t) => a + (b - a) * t
lerp(a, b, t) == Add(a, Mul(Sub(b, a), t))

smoothstep(t) == Mul(Mul(t, t), Sub(FromInt(3), Mul(FromInt(2), t)))

\* THREE.Color.lerp applied to a copy of a: per-channel a + (b - a) * t
ColorLerp(a, b, t) == [i \in 1..3 |-> Add(a[i], Mul(Sub(b[i], a[i]), t))]

\* THREE.MathUtils.clamp / smoothstep / lerp
MUclamp(x, lo, hi) ==
  IF ~(IsNum(x) \/ IsInf(x)) THEN NaN
  ELSE IF Lt(x, lo) THEN lo ELSE IF Gt(x, hi) THEN hi ELSE x

MUsmoothstep(x, lo, hi) ==
  IF Le(x, lo) THEN Zero
  ELSE IF Ge(x, hi) THEN One
  ELSE LET Hermite(u) == Mul(Mul(u, u), Sub(FromInt(3), Mul(FromInt(2), u)))
       IN Hermite(Div(Sub(x, lo), Sub(hi, lo)))

MUlerp(x, y, t) == Add(Mul(Sub(One, t), x), Mul(t, y))

\* Math.log, Math.pow and Math.exp where the program calls them: a positive
\* argument of log, a base of pow that is positive, or zero with a positive
\* exponent
MathLog(x) == IF IsNum(x) /\ x[1] > 0 THEN FLn(x) ELSE NaN
MathPow(x, y) ==
  IF IsNum(x) /\ IsNum(y) /\ x[1] > 0 THEN FExp(FMul(y, FLn(x)))
  ELSE IF x = Zero /\ IsNum(y) /\ y[1] > 0 THEN Zero
  ELSE NaN
MathExp(x) == IF IsNum(x) THEN FExp(x) ELSE NaN

\* Math.sin where the program and its shader call it
MathSin(x) == IF IsNum(x) THEN FSin(x) ELSE NaN

\* (variant: the argument used as given, not clamped to 1000..40000)
kelvinToRGBUnclamped(k0) ==
  LET k == Div(k0, Lit(100, 1))
      r == IF Le(k, Lit(66, 1)) THEN Lit(255, 1)
           ELSE Mul(Lit(329699, 1000),
                    MathPow(Sub(k, Lit(60, 1)), Lit(-1332048, 10000000)))
      g == IF Le(k, Lit(66, 1))
           THEN Sub(Mul(Lit(994708, 10000), MathLog(k)), Lit(1611196, 10000))
           ELSE Mul(Lit(2881222, 10000),
                    MathPow(Sub(k, Lit(60, 1)), Lit(-755148, 10000000)))
      b == IF Ge(k, Lit(66, 1)) THEN Lit(255, 1)
           ELSE IF Le(k, Lit(19, 1)) THEN Zero
           ELSE Sub(Mul(Lit(1385177, 10000), MathLog(Sub(k, Lit(10, 1)))),
                    Lit(3050448, 10000))
  IN <<Div(MUclamp(r, Zero, Lit(255, 1)), Lit(255, 1)),
       Div(MUclamp(g, Zero, Lit(255, 1)), Lit(255, 1)),
       Div(MUclamp(b, Zero, Lit(255, 1)), Lit(255, 1))>>

\* kelvinToRGB(k): the colour of a black body at k Kelvin, channels in 0..1
kelvinToRGB(k0) ==
  LET k == Div(MUclamp(k0, Lit(1000, 1), Lit(40000, 1)), Lit(100, 1))
      r == IF Le(k, Lit(66, 1)) THEN Lit(255, 1)
           ELSE Mul(Lit(329699, 1000),
                    MathPow(Sub(k, Lit(60, 1)), Lit(-1332048, 10000000)))
      g == IF Le(k, Lit(66, 1))
           THEN Sub(Mul(Lit(994708, 10000), MathLog(k)), Lit(1611196, 10000))
           ELSE Mul(Lit(2881222, 10000),
                    MathPow(Sub(k, Lit(60, 1)), Lit(-755148, 10000000)))
      b == IF Ge(k, Lit(66, 1)) THEN Lit(255, 1)
           ELSE IF Le(k, Lit(19, 1)) THEN Zero
           ELSE Sub(Mul(Lit(1385177, 10000), MathLog(Sub(k, Lit(10, 1)))),
                    Lit(3050448, 10000))
  IN <<Div(MUclamp(r, Zero, Lit(255, 1)), Lit(255, 1)),
       Div(MUclamp(g, Zero, Lit(255, 1)), Lit(255, 1)),
       Div(MUclamp(b, Zero, Lit(255, 1)), Lit(255, 1))>>

\* ------------------------------------------------------------ preset table
ScalarFields == {"exposure", "amb", "sunInt", "turbidity", "rayleigh", "mieC",
                 "mieG", "elev", "azim", "sunKelvin", "stars", "hemiInt",
                 "fogDensity"}
ColorFields == {"hemiSky", "hemiGround", "fogColor"}
PresetFields == ScalarFields \cup ColorFields

Modes == {"day", "sunset", "night"}

PresetSunset ==
  [exposure |-> Lit(25, 100), amb |-> Lit(1, 10), sunInt |-> Lit(60, 100),
   sunKelvin |-> Lit(3200, 1),
   turbidity |-> Lit(10, 1), rayleigh |-> Lit(22, 10), mieC |-> Lit(10, 1000),
   mieG |-> Lit(90, 100),
   elev |-> Lit(3, 1), azim |-> Lit(170, 1),
   hemiInt |-> Lit(55, 100),
   hemiSky |-> Color(255, 195, 160),      \* 0xffc3a0
   hemiGround |-> Color(11, 16, 32),      \* 0x0b1020
   fogDensity |-> Lit(35, 100000),
   fogColor |-> Color(20, 32, 51),        \* 0x142033
   stars |-> Lit(0, 1)]

PresetDay ==
  [exposure |-> Lit(3, 10), amb |-> Lit(18, 100), sunInt |-> Lit(3, 1),
   sunKelvin |-> Lit(6500, 1),
   turbidity |-> Lit(6, 1), rayleigh |-> Lit(3, 1), mieC |-> Lit(25, 10000),
   mieG |-> Lit(78, 100),
   elev |-> Lit(55, 1), azim |-> Lit(0, 1),
   fogDensity |-> Lit(8, 100000),
   fogColor |-> Color(184, 210, 240),     \* 0xb8d2f0
   hemiInt |-> Lit(35, 100),
   hemiSky |-> Color(207, 232, 255),      \* 0xcfe8ff
   hemiGround |-> Color(42, 42, 42),      \* 0x2a2a2a
   stars |-> Lit(0, 1)]

PresetNight ==
  [exposure |-> Lit(22, 100), amb |-> Lit(5, 100), sunInt |-> Lit(1, 100),
   sunKelvin |-> Lit(10000, 1),
   turbidity |-> Lit(1, 1), rayleigh |-> Lit(0, 1), mieC |-> Lit(0, 1),
   mieG |-> Lit(7, 10),
   elev |-> Lit(-20, 1), azim |-> Lit(180, 1),
   hemiInt |-> Lit(5, 100),
   hemiSky |-> Color(5, 8, 26),           \* 0x05081a
   hemiGround |-> Color(0, 0, 0),         \* 0x000000
   stars |-> Lit(1, 1),
   fogDensity |-> Lit(4, 10000),
   fogColor |-> Color(11, 16, 32)]        \* 0x0b1020

Preset(mode) ==
  IF mode = "sunset" THEN PresetSunset
  ELSE IF mode = "day" THEN PresetDay ELSE PresetNight

\* (variant: every command left at startTransition's default duration)
DurationDefault(mode) == Lit(2, 1)

\* the duration argument of each command, in seconds
Duration(mode) ==
  IF mode = "sunset" THEN Lit(25, 10)
  ELSE IF mode = "day" THEN Lit(2, 1) ELSE Lit(3, 1)

\* lighting.ibl written by each command
Ibl(mode) ==
  IF mode = "sunset" THEN Lit(25, 100)
  ELSE IF mode = "day" THEN Lit(55, 100) ELSE Lit(1, 100)

\* keydown listener: '1' day, '2' sunset, '3' night, anything else ignored
Keys == {"1", "2", "3", "4"}
KeyMode(key) ==
  IF key = "1" THEN "day"
  ELSE IF key = "2" THEN "sunset"
  ELSE IF key = "3" THEN "night" ELSE "none"

\* sunColor before the first frame: new THREE.Color(0xffffff)
ColorOfHex == Color(255, 255, 255)

\* const current = { ... }
InitialCurrent ==
  [exposure |-> Lit(65, 100), amb |-> Lit(35, 100), sunInt |-> Lit(8, 10),
   sunColor |-> ColorOfHex,               \* 0xffffff
   turbidity |-> Lit(6, 1), rayleigh |-> Lit(2, 1), mieC |-> Lit(25, 10000),
   mieG |-> Lit(78, 100),
   elev |-> Lit(45, 1), azim |-> Lit(180, 1),
   stars |-> Lit(0, 1),
   hemiInt |-> Lit(0, 1),
   hemiSky |-> Color(255, 255, 255),      \* 0xffffff
   hemiGround |-> Color(32, 32, 32),      \* 0x202020
   fogDensity |-> Lit(0, 1),
   fogColor |-> Color(0, 0, 0),           \* 0x000000
   sunKelvin |-> Lit(6500, 1)]

NULL == [none |-> TRUE]
UndefinedColor == <<Undefined, Undefined, Undefined>>
CoalesceColor(a, b) == IF a = UndefinedColor THEN b ELSE a

\* ------------------------------------------------------------------- state
VARIABLES
  now,                  \* performance.now(), in milliseconds
  current,              \* CurrentState
  transition,           \* NULL or [from, to, t0, dur]
  lighting,             \* lighting.ibl
  toneMappingExposure,  \* renderer.toneMappingExposure
  ambientLight,         \* ambientLight.intensity
  directionalLight,     \* directionalLight.intensity
  hemi,                 \* [intensity, color, groundColor]
  fog,                  \* scene.fog: NULL or [color, density]
  skyUniforms,          \* [turbidity, rayleigh, mieCoefficient, mieDirectionalG]
  sunAngles,            \* arguments of the last setSunByElevationAzimuth
  sunSpriteOpacity,     \* sunSprite.material.opacity
  uOpacity,             \* star shader uniform
  uWindowColor,         \* cityLightUniforms.uWindowColor, as 0xRRGGBB bytes
  dirColor,             \* directionalLight.color
  uLightIntensity,      \* cityLightUniforms.uLightIntensity
  probe,                \* a function of the program called on its own
  colors,               \* the THREE.Color objects of the engine, by slot
  refs,                 \* the Color objects transition.from / .to point to
  asset,                \* the asset request followed: [kind, std, status]
  scene,                \* the objects scene.traverse visits
  envMap,               \* whether envMap holds the HDR texture
  errors,               \* console.error calls so far
  towerLightState,      \* towerLightState.cur
  towerLight,           \* towerLight.intensity
  halted,               \* a frame threw: the animation loop has ended
  hist,                 \* history: the latest operation and command
  ncmd                  \* key presses so far

vars == <<now, current, transition, lighting, toneMappingExposure,
          ambientLight, directionalLight, hemi, fog, skyUniforms, sunAngles,
          sunSpriteOpacity, uOpacity, uWindowColor, dirColor,
          uLightIntensity, probe, colors, refs, asset, scene, envMap,
          errors, towerLightState, towerLight, halted, hist, ncmd>>

bindings == <<toneMappingExposure, ambientLight, directionalLight, hemi, fog,
              skyUniforms, sunAngles, sunSpriteOpacity, uOpacity,
              uWindowColor, dirColor>>

\* state that a frame moves by a step of its own (followers), and the
\* record of a function called on its own; Spec and SpecOmit explore the
\* time-of-day state, which never reads them, and leave them as they are
objects == <<colors, refs>>
loaded == <<asset, scene, envMap, errors, towerLightState, towerLight,
            halted>>
others == <<uLightIntensity, probe, objects, loaded>>

\* ------------------------------------------------------- Transition Engine
InheritedFields == {"hemiInt", "fogDensity", "sunKelvin"}

\* (variant: every transition starts from the state of module load)
startTransitionFromInitial(old, cur, to, duration, t) ==
  [from |-> [f \in DOMAIN cur |->
               IF f \in PresetFields THEN InitialCurrent[f] ELSE cur[f]],
   to |-> [f \in PresetFields |->
             IF f \in ColorFields THEN CoalesceColor(to[f], cur[f])
             ELSE IF f \in InheritedFields THEN Coalesce(to[f], cur[f])
             ELSE to[f]],
   t0 |-> t,
   dur |-> Mul(duration, Lit(1000, 1))]

\* (variant: a call made mid-flight keeps the discarded transition's `from`)
startTransitionKeepFrom(old, cur, to, duration, t) ==
  [from |-> IF old = NULL THEN cur ELSE old.from,
   to |-> [f \in PresetFields |->
             IF f \in ColorFields THEN CoalesceColor(to[f], cur[f])
             ELSE IF f \in InheritedFields THEN Coalesce(to[f], cur[f])
             ELSE to[f]],
   t0 |-> t,
   dur |-> Mul(duration, Lit(1000, 1))]

\* (variant: a call made mid-flight starts from the discarded transition's
\* target, as if that transition had finished)
startTransitionFromTarget(old, cur, to, duration, t) ==
  [from |-> IF old = NULL THEN cur
            ELSE [f \in DOMAIN cur |->
                    IF f \in PresetFields THEN old.to[f] ELSE cur[f]],
   to |-> [f \in PresetFields |->
             IF f \in ColorFields THEN CoalesceColor(to[f], cur[f])
             ELSE IF f \in InheritedFields THEN Coalesce(to[f], cur[f])
             ELSE to[f]],
   t0 |-> t,
   dur |-> Mul(duration, Lit(1000, 1))]

\* the record startTransition(to, duration) stores, called at time t with
\* CurrentState cur; to maps every preset field to a value or to undefined;
\* old is the record it overwrites, which it does not read
startTransition(old, cur, to, duration, t) ==
  [from |-> cur,
   to |-> [f \in PresetFields |->
             IF f \in ColorFields THEN CoalesceColor(to[f], cur[f])
             ELSE IF f \in InheritedFields THEN Coalesce(to[f], cur[f])
             ELSE to[f]],
   t0 |-> t,
   dur |-> Mul(duration, Lit(1000, 1))]

\* (variant: the raw progress without the cap at 1)
ProgressUncapped(tr, t) == Div(FromInt(t - tr.t0), tr.dur)

\* raw progress (now - t0) / dur, capped at 1
Progress(tr, t) ==
  LET raw == Div(FromInt(t - tr.t0), tr.dur)
  IN IF Ge(raw, One) THEN One ELSE raw

\* the interpolated fields written by one frame, at eased progress t
Interpolate(cur, tr, t) ==
  LET a == tr.from
      b == tr.to
  IN [f \in DOMAIN cur |->
        IF f = "sunColor" THEN cur[f]
        ELSE IF f = "sunKelvin"
             THEN lerp(Coalesce(a[f], Lit(6500, 1)),
                       Coalesce(b[f], Lit(6500, 1)), t)
        ELSE IF f \in ColorFields THEN ColorLerp(a[f], b[f], t)
        ELSE lerp(a[f], b[f], t)]

\* CurrentState after the advance step of a frame at time t
Advance(cur, tr, t) ==
  IF tr = NULL THEN cur ELSE Interpolate(cur, tr, smoothstep(Progress(tr, t)))

\* the transition record after the advance step of a frame at time t
Cleared(tr, t) ==
  IF tr = NULL THEN NULL
  ELSE IF smoothstep(Progress(tr, t)) = One THEN NULL ELSE tr

\* horizon proximity: 1 for elevations in [-8, 8], 0 above 25 and below -18
SunsetT(cur) ==
  LET nearHorizon == Sub(One, MUsmoothstep(cur.elev, Lit(8, 1), Lit(25, 1)))
      notDeepNight == MUsmoothstep(cur.elev, Lit(-18, 1), Lit(-8, 1))
  IN MUclamp(Mul(nearHorizon, notDeepNight), Zero, One)

\* Kelvin bias near the horizon
BiasedKelvin(cur) ==
  MUlerp(cur.sunKelvin, Mul(cur.sunKelvin, Lit(65, 100)), SunsetT(cur))

\* (variant: the biased Kelvin stored back into CurrentState)
BiasSunColorWriteBack(cur) ==
  [cur EXCEPT !.sunColor = kelvinToRGB(BiasedKelvin(cur)),
              !.sunKelvin = BiasedKelvin(cur)]

\* CurrentState after current.sunColor.copy(kelvinToRGB(biasedKelvin))
BiasSunColor(cur) ==
  [cur EXCEPT !.sunColor = kelvinToRGB(BiasedKelvin(cur))]

\* (variant: the tint blended into the colour left by the previous frame)
SunLightColorNoCopy(prev, cur) ==
  ColorLerp(prev, <<One, Lit(78, 100), Lit(58, 100)>>,
            Mul(Lit(35, 100), SunsetT(cur)))

\* directionalLight.color after the binder: a copy of sunColor, blended
\* toward the sunset tint; prev is the colour the binder overwrites
SunLightColor(prev, cur) ==
  ColorLerp(cur.sunColor, <<One, Lit(78, 100), Lit(58, 100)>>,
            Mul(Lit(35, 100), SunsetT(cur)))

\* -------------------------------------------------------------- binders
\* Math.round(x) of a number, as an integer
JsRound(x) ==
  IF x[2] >= 0 THEN x[1] * 2^(x[2])
  ELSE IF -x[2] > 2 * MantBits THEN 0
  ELSE (2 * x[1] + 2^(-x[2])) \div 2^(1 - x[2])

\* THREE.Color.getHex, as the three bytes; -1 where a channel is NaN
GetHex(c) ==
  [i \in 1..3 |->
     IF ~IsNum(c[i]) THEN -1
     ELSE JsRound(MUclamp(Mul(c[i], Lit(255, 1)), Zero, Lit(255, 1)))]

\* (variant: the fog kept for a density of zero)
FogOfNonNegative(cur) ==
  IF Ge(cur.fogDensity, Zero)
  THEN [color |-> GetHex(cur.fogColor), density |-> cur.fogDensity]
  ELSE NULL

\* scene.fog written by the binder
FogOf(cur) ==
  IF Gt(cur.fogDensity, Zero)
  THEN [color |-> GetHex(cur.fogColor), density |-> cur.fogDensity]
  ELSE NULL

\* uOpacity of the star shader
\* (variant: the uniform eased toward its target instead of set to it)
StarOpacitySmoothed(cur) ==
  lerp(uOpacity, Mul(cur.stars, Lit(13, 10)), Lit(5, 10))
StarOpacity(cur) == Mul(cur.stars, Lit(13, 10))

\* (variant: the night weight fading out up to the high-day edge)
IsNightToHighDay(cur) ==
  Sub(One, MUsmoothstep(cur.elev, Lit(-6, 1), Lit(25, 1)))

\* blend weights of animate()
IsNight(cur) == Sub(One, MUsmoothstep(cur.elev, Lit(-6, 1), Lit(5, 1)))
IsHighDay(cur) == MUsmoothstep(cur.elev, Lit(5, 1), Lit(25, 1))
IsSunset(cur) == Mul(Sub(One, IsNight(cur)), Sub(One, IsHighDay(cur)))

WindowColor(cur) ==
  IF Gt(IsSunset(cur), Lit(5, 10)) THEN <<255, 216, 168>>   \* 0xffd8a8
  ELSE <<255, 221, 170>>                                     \* 0xffddaa

\* ------------------------------------------------ the Color objects
\* CurrentState, a transition's from and to, and the preset literal passed
\* to startTransition each hold THREE.Color objects; a slot is one object
SnapFields == ColorFields \cup {"sunColor"}
Slots ==
  ({"cur", "from"} \X SnapFields) \cup ({"to", "preset"} \X ColorFields)

\* (variant: the snapshot keeps the object it was given)
CloneRefShared(src, fresh) == src

\* x.clone(): the snapshot holds a fresh object
CloneRef(src, fresh) == fresh

\* the objects transition.from and transition.to hold after startTransition
SnapshotRefs ==
  [from |-> [f \in SnapFields |-> CloneRef(<<"cur", f>>, <<"from", f>>)],
   to |-> [f \in ColorFields |-> CloneRef(<<"preset", f>>, <<"to", f>>)]]

\* the objects after startTransition(preset, ...): the preset literal's
\* colours are new objects, and each clone starts as a copy of its source
ObjectsAfterCall(objs, preset) ==
  [s \in Slots |->
     IF s[1] = "preset" \/ s[1] = "to" THEN preset[s[2]]
     ELSE IF s[1] = "from" THEN objs[<<"cur", s[2]>>]
     ELSE objs[s]]

\* the objects after the advance step and the Kelvin bias of a frame at
\* time t: current.x.copy(a.x).lerp(b.x, eased) for the three interpolated
\* colours while a transition tr is active, and current.sunColor.copy(sun)
ObjectsAfterFrame(objs, rf, tr, t, sun) ==
  [s \in Slots |->
     IF s = <<"cur", "sunColor">> THEN sun
     ELSE IF s[1] = "cur" /\ tr # NULL
          THEN ColorLerp(objs[rf.from[s[2]]], objs[rf.to[s[2]]],
                         smoothstep(Progress(tr, t)))
     ELSE objs[s]]

\* ------------------------------------------------------ the scene graph
\* what scene.traverse visits, as far as a frame reads or writes it: one
\* record per loaded group, with the materials of its meshes, and one per
\* built-in mesh
Resources == {"towerGlow", "towerPointLights", "bridgeLights",
              "searchLightPivot", "searchLight"}

\* a MeshStandardMaterial / MeshPhysicalMaterial (std) as loadModel leaves
\* it, or a material of another class, which has neither emissive nor
\* envMapIntensity
Material(std, lightType, emissiveIntensity, envMapIntensity) ==
  [std |-> std,
   lightType |-> IF std THEN lightType ELSE "none",
   emissive |-> IF std THEN Color(0, 0, 0) ELSE UndefinedColor,
   emissiveIntensity |-> IF std THEN emissiveIntensity ELSE Undefined,
   envMapIntensity |-> IF std THEN envMapIntensity ELSE Undefined]

NoGlow == [opacity |-> Undefined, color |-> UndefinedColor]
NoLight == [hue |-> Undefined, intensity |-> Undefined]

\* the water and sky meshes: a ShaderMaterial each
BuiltInMesh ==
  [isGroup |-> FALSE, type |-> "none", isTokyoTower |-> FALSE, has |-> {},
   towerGlow |-> NoGlow, towerPointLights |-> <<>>, bridgeLights |-> <<>>,
   searchLightPivot |-> Undefined, searchLight |-> NoLight,
   mats |-> <<Material(FALSE, "none", Undefined, Undefined)>>]

AssetKinds == {"tower", "bridge", "yacht", "building", "millefiori", "mori",
               "island"}
TowerLevels == 5

\* userData.type the load callback gives the group, from the url
TypeOf(kind) ==
  IF kind \in {"tower", "bridge", "yacht"} THEN kind
  ELSE IF kind \in {"building", "millefiori", "mori"} THEN "building"
  ELSE "none"

\* the group the success callback of loadModel adds to the scene; ibl is
\* lighting.ibl at that moment, seeds and hue are its Math.random() draws.
\* The four point lights of a tower level are updated alike and kept as one.
LoadedGroup(kind, std, ibl, seeds, hue) ==
  [isGroup |-> TRUE,
   type |-> TypeOf(kind),
   isTokyoTower |-> kind = "tower",
   has |-> IF kind = "tower" THEN {"towerGlow", "towerPointLights"}
           ELSE IF kind = "bridge" THEN {"bridgeLights"}
           ELSE IF kind = "yacht" THEN {"searchLightPivot", "searchLight"}
           ELSE {},
   towerGlow |-> IF kind = "tower"
                 THEN [opacity |-> Zero, color |-> Color(255, 255, 255)]
                 ELSE NoGlow,
   towerPointLights |->
     IF kind = "tower"
     THEN [i \in 1..TowerLevels |-> [levelIndex |-> i - 1, intensity |-> Zero]]
     ELSE <<>>,
   bridgeLights |->
     IF kind = "bridge"
     THEN [i \in 1..Len(seeds) |-> [noiseSeed |-> seeds[i], intensity |-> Zero]]
     ELSE <<>>,
   searchLightPivot |-> IF kind = "yacht" THEN Zero ELSE Undefined,
   searchLight |-> IF kind = "yacht" THEN [hue |-> hue, intensity |-> Zero]
                   ELSE NoLight,
   mats |-> <<Material(std,
                       IF kind \in {"tower", "bridge"} THEN kind
                       ELSE IF TypeOf(kind) = "building" THEN "building"
                       ELSE "none",
                       IF kind = "bridge" THEN One ELSE Zero,
                       IF kind = "millefiori" /\ ~Gt(ibl, Lit(16, 10))
                       THEN Lit(16, 10)
                       ELSE IF kind = "mori" /\ ~Gt(ibl, Lit(14, 10))
                       THEN Lit(14, 10) ELSE ibl)>>]

\* x % 1.0
Mod1(x) ==
  IF ~IsNum(x) THEN NaN
  ELSE IF x[2] >= 0 THEN Zero
  ELSE IF -x[2] > 30 THEN x
  ELSE LET a == IF x[1] < 0 THEN -x[1] ELSE x[1]
           f == Sub(<<a, x[2]>>, FromInt(a \div 2^(-x[2])))
       IN IF x[1] < 0 THEN Neg(f) ELSE f

\* Tokyo Tower lights of animate()
TowerPulse(time) ==
  Add(Mul(MathSin(Mul(time, Lit(2, 1))), Lit(5, 10)), Lit(5, 10))
TowerTargetColor(cur) ==
  ColorLerp(Color(255, 136, 0), Color(255, 0, 0), IsNight(cur))
\* (variant: the night share without the pulse)
TowerIntensitySteady(cur, time) ==
  Add(IF Gt(IsSunset(cur), Lit(1, 10))
      THEN Mul(IsSunset(cur), Lit(6, 10)) ELSE Zero,
      IF Gt(IsNight(cur), Lit(1, 10))
      THEN Mul(IsNight(cur), Lit(8, 10)) ELSE Zero)

TowerIntensity(cur, time) ==
  Add(IF Gt(IsSunset(cur), Lit(1, 10))
      THEN Mul(IsSunset(cur), Lit(6, 10)) ELSE Zero,
      IF Gt(IsNight(cur), Lit(1, 10))
      THEN Mul(IsNight(cur),
               Add(Lit(8, 10), Mul(TowerPulse(time), Lit(4, 10))))
      ELSE Zero)
Wave(time, lvl) ==
  Add(Mul(MathSin(Sub(Mul(time, Lit(2, 1)), Mul(FromInt(lvl), Lit(8, 10)))),
          Lit(3, 10)),
      Lit(7, 10))

\* bridge lamps of animate()
BridgeBase(cur) ==
  Mul(Add(Mul(IsSunset(cur), Lit(2, 10)), Mul(IsNight(cur), One)),
      Lit(30000, 1))
LampTarget(base, time, seed) ==
  LET flicker == Add(Mul(MathSin(Add(Mul(time, Lit(20, 1)), seed)),
                         Lit(1, 10)), Lit(9, 10))
      pulse == Add(Mul(MathSin(Add(Mul(time, One), Mul(seed, Lit(5, 10)))),
                       Lit(2, 10)), Lit(8, 10))
      randomVal == MathSin(Add(Mul(time, Lit(5, 1)), Mul(seed, Lit(13, 1))))
      glitch == IF Gt(randomVal, Lit(96, 100)) THEN Zero ELSE One
  IN Mul(Mul(Mul(base, flicker), pulse), glitch)
\* (variant: a lamp below the threshold eases toward 0)
BridgeLampEased(value, base, time, seed) ==
  MUlerp(value,
         IF Lt(base, Lit(100, 1)) THEN Zero ELSE LampTarget(base, time, seed),
         Lit(2, 10))

BridgeLamp(value, base, time, seed) ==
  IF Lt(base, Lit(100, 1)) THEN Zero
  ELSE MUlerp(value, LampTarget(base, time, seed), Lit(2, 10))

\* the smoothed tower state of updateSkyAndLights()
TowerTarget(cur) ==
  IF Gt(cur.stars, Lit(5, 10)) THEN Lit(55, 100)
  ELSE IF Lt(cur.elev, Lit(6, 1)) THEN Lit(30, 100)
  ELSE Zero
TowerFollow(value, cur, delta) ==
  LET k == Sub(One, MathExp(Mul(Neg(Lit(22, 10)), delta)))
  IN Add(value, Mul(Sub(TowerTarget(cur), value), k))
MaxPoint(cur) ==
  IF Gt(cur.stars, Lit(5, 10)) THEN One
  ELSE IF Lt(cur.elev, Lit(6, 1)) THEN Lit(5, 10)
  ELSE Zero
Shaped(value) == MathPow(MUclamp(value, Zero, One), Lit(2, 1))
GlowOpacity(value) ==
  MUclamp(Mul(MathPow(MUclamp(value, Zero, One), Lit(22, 10)),
              Lit(18, 100)),
          Zero, Lit(18, 100))

\* what the passes over the scene of one frame read: the frame's time in
\* seconds and the values computed before the traversals
SceneContext(cur, ibl, value, t) ==
  LET time == Mul(FromInt(t), Lit(1, 1000))
  IN [time |-> time,
      isNight |-> IsNight(cur),
      towerIntensity |-> TowerIntensity(cur, time),
      towerTargetColor |-> TowerTargetColor(cur),
      bridgeBase |-> BridgeBase(cur),
      ibl |-> ibl,
      shaped |-> Shaped(value),
      glowOpacity |-> GlowOpacity(value)]

\* (variant: applyIBLIntensity never lowers a material's envMapIntensity)
SkyPassKeepBoost(o, c) ==
  [o EXCEPT
     !.mats = [j \in DOMAIN o.mats |->
                 [o.mats[j] EXCEPT
                    !.envMapIntensity =
                      IF o.mats[j].std /\ ~Gt(@, c.ibl) THEN c.ibl ELSE @,
                    !.emissiveIntensity =
                      IF o.isGroup /\ o.isTokyoTower
                         /\ o.mats[j].emissive # UndefinedColor
                      THEN c.shaped ELSE @]],
     !.towerGlow.opacity =
        IF o.isGroup /\ o.isTokyoTower /\ "towerGlow" \in o.has
        THEN c.glowOpacity ELSE @]

\* the traversals of updateSkyAndLights(): applyIBLIntensity, the tower's
\* emissive intensity and the glow opacity
SkyPass(o, c) ==
  [o EXCEPT
     !.mats = [j \in DOMAIN o.mats |->
                 [o.mats[j] EXCEPT
                    !.envMapIntensity = IF o.mats[j].std THEN c.ibl ELSE @,
                    !.emissiveIntensity =
                      IF o.isGroup /\ o.isTokyoTower
                         /\ o.mats[j].emissive # UndefinedColor
                      THEN c.shaped ELSE @]],
     !.towerGlow.opacity =
        IF o.isGroup /\ o.isTokyoTower /\ "towerGlow" \in o.has
        THEN c.glowOpacity ELSE @]

\* (variant: the bridge animator run on every object)
BridgeGuardNone(o) == TRUE

\* the guard of the bridge animator of animate()
BridgeGuard(o) == o.type = "bridge" /\ "bridgeLights" \in o.has

\* the guards of the five animators, in the order of the callback of
\* scene.traverse: tower glow, tower point lights, bridge lamps, yacht
\* search light, materials with a lightType
AnimatorGuard(i, o) ==
  CASE i = 1 -> o.type = "tower" /\ "towerGlow" \in o.has
    [] i = 2 -> o.type = "tower" /\ "towerPointLights" \in o.has
    [] i = 3 -> BridgeGuard(o)
    [] i = 4 -> /\ o.type = "yacht"
                /\ {"searchLightPivot", "searchLight"} \subseteq o.has
    [] i = 5 -> \E j \in DOMAIN o.mats : o.mats[j].lightType # "none"

\* the animator dereferences a resource the object does not have: a
\* TypeError
AnimatorThrows(i, o) ==
  /\ AnimatorGuard(i, o)
  /\ CASE i = 1 -> "towerGlow" \notin o.has
       [] i = 2 -> "towerPointLights" \notin o.has
       [] i = 3 -> "bridgeLights" \notin o.has
       [] i = 4 -> FALSE
       [] i = 5 -> \E j \in DOMAIN o.mats :
                     /\ o.mats[j].lightType = "tower"
                     /\ o.mats[j].emissive = UndefinedColor

AnimatorWrites(i, o, c) ==
  CASE i = 1 ->
         [o EXCEPT !.towerGlow =
            [opacity |-> Mul(c.towerIntensity, Lit(25, 100)),
             color |-> c.towerTargetColor]]
    [] i = 2 ->
         [o EXCEPT !.towerPointLights =
            [k \in DOMAIN o.towerPointLights |->
               [o.towerPointLights[k] EXCEPT !.intensity =
                  MUlerp(o.towerPointLights[k].intensity,
                         Mul(Mul(c.towerIntensity, Lit(30000, 1)),
                             Wave(c.time, o.towerPointLights[k].levelIndex)),
                         Lit(1, 10))]]]
    [] i = 3 ->
         [o EXCEPT !.bridgeLights =
            [k \in DOMAIN o.bridgeLights |->
               [o.bridgeLights[k] EXCEPT !.intensity =
                  BridgeLamp(o.bridgeLights[k].intensity, c.bridgeBase,
                             c.time, o.bridgeLights[k].noiseSeed)]]]
    [] i = 4 ->
         [o EXCEPT
            !.searchLightPivot = Add(o.searchLightPivot, Lit(15, 1000)),
            !.searchLight =
               [hue |-> Mod1(Mul(c.time, Lit(1, 10))),
                intensity |->
                  MUlerp(o.searchLight.intensity,
                         IF Gt(c.isNight, Lit(1, 10)) THEN Lit(50000, 1)
                         ELSE Zero,
                         Lit(5, 100))]]
    [] i = 5 ->
         [o EXCEPT !.mats =
            [j \in DOMAIN o.mats |->
               IF o.mats[j].lightType = "tower"
               THEN [o.mats[j] EXCEPT
                       !.emissive = c.towerTargetColor,
                       !.emissiveIntensity =
                          MUlerp(o.mats[j].emissiveIntensity,
                                 c.towerIntensity, Lit(1, 10))]
               ELSE IF o.mats[j].lightType = "bridge"
               THEN [o.mats[j] EXCEPT !.emissive = Color(0, 0, 0),
                                      !.emissiveIntensity = Zero]
               ELSE o.mats[j]]]

\* animator i in the callback of scene.traverse, on the object and the
\* error flag r the animators before it left
Animator(i, r, c) ==
  IF r.threw \/ ~AnimatorGuard(i, r.obj) THEN r
  ELSE IF AnimatorThrows(i, r.obj) THEN [obj |-> r.obj, threw |-> TRUE]
  ELSE [obj |-> AnimatorWrites(i, r.obj, c), threw |-> FALSE]

\* the callback of scene.traverse on one object: the five animators in turn
AnimateObject(o, c) ==
  CHOOSE r \in
    {Animator(5, r4, c) : r4 \in
      {Animator(4, r3, c) : r3 \in
        {Animator(3, r2, c) : r2 \in
          {Animator(2, r1, c) : r1 \in
            {Animator(1, [obj |-> o, threw |-> FALSE], c)}}}}} : TRUE

\* the scene after the passes of one frame, and whether the frame threw
\* before renderer.render: an error ends scene.traverse, so the objects
\* after the one that threw keep what updateSkyAndLights() gave them
SceneAfterFrame(sc, c) ==
  CHOOSE out \in
    {[scene |-> [i \in DOMAIN sc |->
                   IF \E k \in 1..(i - 1) : done[k].threw THEN sky[i]
                   ELSE done[i].obj],
      threw |-> \E k \in DOMAIN sc : done[k].threw] :
       sky \in {[i \in DOMAIN sc |-> SkyPass(sc[i], c)]},
       done \in {[i \in DOMAIN sc |->
                    AnimateObject(SkyPass(sc[i], c), c)]}} : TRUE

\* ------------------------------------------------------------ operations
NoKey == "-"

\* history kept beside the program state:
\*   op        the operation that produced this state
\*   key       the key of the latest keydown (NoKey before the first)
\*   mode      the mode of the latest command ("day" at startup)
\*   pair      the mode commanded just before the latest command with no
\*             frame in between, "none" otherwise
\*   t0        the time of the latest command
\*   fresh     no frame has run since the latest command
\*   inflight  a transition was active when the latest command was issued
\*   first     this state was produced by the first frame after a command
\*   omitted   the target fields the latest startTransition call left out
AfterCommand(op, key, mode, omitted) ==
  [op |-> op, key |-> key, mode |-> mode,
   pair |-> IF hist.fresh THEN hist.mode ELSE "none",
   t0 |-> now, fresh |-> TRUE, inflight |-> transition # NULL,
   first |-> FALSE, omitted |-> omitted]

\* (variant: an unknown mode falls back to the day environment intensity)
setTimeOfDayFallback(mode) ==
  IF mode \in Modes
  THEN /\ transition' = startTransition(transition, current, Preset(mode),
                                        Duration(mode), now)
       /\ lighting' = Ibl(mode)
  ELSE transition' = transition /\ lighting' = Ibl("day")

\* setTimeOfDay(mode): one startTransition and one write of lighting.ibl for
\* a known mode, nothing for any other string
setTimeOfDay(mode) ==
  IF mode \in Modes
  THEN /\ transition' = startTransition(transition, current, Preset(mode),
                                        Duration(mode), now)
       /\ lighting' = Ibl(mode)
  ELSE UNCHANGED <<transition, lighting>>

\* window keydown listener, on the time-of-day state
Command(key) ==
  /\ ncmd < MaxCommands
  /\ setTimeOfDay(KeyMode(key))
  /\ ncmd' = ncmd + 1
  /\ hist' = IF KeyMode(key) \in Modes
             THEN AfterCommand("key", key, KeyMode(key), {})
             ELSE [hist EXCEPT !.op = "key", !.key = key, !.first = FALSE]
  /\ UNCHANGED <<now, current, bindings>>

Keydown(key) == Command(key) /\ UNCHANGED others

\* (variant: binders and animators run before the advance step)
BinderInputStale(before, advanced) == before

\* the CurrentState the binders and animators of a frame read: the one the
\* advance step of the same frame produced
BinderInput(before, advanced) == advanced

\* a frame run at time t: updateSkyAndLights() (advance, Kelvin bias,
\* binders, stars), then the window colour
Frame(t) ==
  \E advanced \in {Advance(current, transition, t)} :
  \E cur \in {BiasSunColor(advanced)} :
  \E seen \in {BinderInput(current, cur)} :
     /\ current' = cur
     /\ transition' = Cleared(transition, t)
     /\ toneMappingExposure' = seen.exposure
     /\ ambientLight' = seen.amb
     /\ directionalLight' = seen.sunInt
     /\ hemi' = [intensity |-> seen.hemiInt, color |-> seen.hemiSky,
                 groundColor |-> seen.hemiGround]
     /\ fog' = FogOf(seen)
     /\ skyUniforms' = [turbidity |-> seen.turbidity,
                        rayleigh |-> seen.rayleigh,
                        mieCoefficient |-> seen.mieC,
                        mieDirectionalG |-> seen.mieG]
     /\ sunAngles' = <<seen.elev, seen.azim>>
     /\ sunSpriteOpacity' =
          MUclamp(Mul(seen.sunInt, Lit(12, 10)), Zero, One)
     /\ uOpacity' = StarOpacity(seen)
     /\ uWindowColor' = WindowColor(seen)
     /\ dirColor' = SunLightColor(dirColor, seen)
     /\ hist' = [hist EXCEPT !.op = "tick", !.fresh = FALSE,
                              !.first = hist.fresh]
     /\ UNCHANGED <<lighting, ncmd>>

\* animate(), called back at the current clock value
Animate == Frame(now) /\ UNCHANGED <<now, others>>

\* the clock moves on between callbacks
ClockStep ==
  /\ now < TimeStep * MaxClockSteps
  /\ now' = now + TimeStep
  /\ hist' = [hist EXCEPT !.op = "clock", !.first = FALSE]
  /\ UNCHANGED <<current, transition, lighting, bindings, ncmd, others>>

\* module load: the initial objects, then setTimeOfDay('day')
ModuleLoad ==
  /\ now = 0
  /\ current = InitialCurrent
  /\ transition = startTransition(NULL, InitialCurrent, PresetDay,
                               Duration("day"), 0)
  /\ lighting = Ibl("day")
  /\ toneMappingExposure = Lit(1, 1)
  /\ ambientLight = Lit(18, 100)
  /\ directionalLight = Lit(1, 1)
  /\ hemi = [intensity |-> Lit(0, 1), color |-> Color(255, 255, 255),
             groundColor |-> Color(32, 32, 32)]
  /\ fog = NULL
  /\ skyUniforms = [turbidity |-> Lit(8, 1), rayleigh |-> Lit(2, 1),
                    mieCoefficient |-> Lit(5, 1000),
                    mieDirectionalG |-> Lit(8, 10)]
  /\ sunAngles = <<Undefined, Undefined>>
  /\ sunSpriteOpacity = Lit(1, 1)
  /\ uOpacity = Lit(0, 1)
  /\ uWindowColor = <<255, 204, 136>>     \* 0xffcc88
  /\ dirColor = Color(255, 255, 255)      \* 0xffffff
  /\ uLightIntensity = Lit(0, 1)
  /\ scene = <<BuiltInMesh>>
  /\ envMap = FALSE
  /\ errors = 0
  /\ towerLightState = Zero
  /\ towerLight = Zero
  /\ halted = FALSE
  /\ refs = SnapshotRefs
  /\ colors = ObjectsAfterCall([s \in Slots |-> InitialCurrent[s[2]]],
                               PresetDay)
  /\ hist = [op |-> "init", key |-> NoKey, mode |-> "day", pair |-> "none",
             t0 |-> 0, fresh |-> TRUE, inflight |-> FALSE, first |-> FALSE,
             omitted |-> {}]
  /\ ncmd = 0

NoAsset == [kind |-> "none", std |-> FALSE, status |-> "none"]

Init == ModuleLoad /\ probe = NULL /\ asset = NoAsset

Next == (\E key \in Keys : Keydown(key)) \/ Animate \/ ClockStep

Spec == Init /\ [][Next]_vars

\* ---------------------------------------- startTransition as a function:
\* callers that leave one field of the target out
Omit(preset, omitted) ==
  [f \in PresetFields |->
     IF f \in omitted
     THEN (IF f \in ColorFields THEN UndefinedColor ELSE Undefined)
     ELSE preset[f]]

\* the fields the explored callers leave out: one the code copies from the
\* target only, two it fills with ??, one colour
OmitFields == {"exposure", "hemiInt", "sunKelvin", "fogColor"}

CallStartTransition(mode, f) ==
  /\ ncmd < MaxCalls
  /\ transition' = startTransition(transition, current,
                                   Omit(Preset(mode), {f}),
                                   Duration(mode), now)
  /\ ncmd' = ncmd + 1
  /\ hist' = AfterCommand("call", NoKey, mode, {f})
  /\ UNCHANGED <<now, current, lighting, bindings, others>>

NextOmit ==
  \/ \E mode \in Modes, f \in OmitFields : CallStartTransition(mode, f)
  \/ Animate
  \/ ClockStep

SpecOmit == Init /\ [][NextOmit]_vars

\* ------------------------------------------ frames at successive times:
\* the window-intensity follower
WindowTarget(cur) ==
  Add(Mul(IsSunset(cur), Lit(5, 10)), Mul(IsNight(cur), Lit(15, 10)))

\* (variant: the uniform set to its target at once)
FollowSnap(value, cur) == WindowTarget(cur)

\* (variant: the step is one and a half times the distance to the target)
FollowOvershoot(value, cur) ==
  Add(value, Mul(Sub(WindowTarget(cur), value), Lit(15, 10)))

\* cityLightUniforms.uLightIntensity.value += (target - curInt) * 0.05
Follow(value, cur) ==
  Add(value, Mul(Sub(WindowTarget(cur), value), Lit(5, 100)))

\* requestAnimationFrame: animate() called back TimeStep after the previous
\* callback, the whole frame
AnimationFrame ==
  /\ now < TimeStep * MaxClockSteps
  /\ now' = now + TimeStep
  /\ Frame(now + TimeStep)
  /\ uLightIntensity' = Follow(uLightIntensity, current')
  /\ UNCHANGED <<probe, objects, loaded>>

NextFrames == (\E key \in Keys : Keydown(key)) \/ AnimationFrame

SpecFrames == Init /\ [][NextFrames]_vars

\* frames that keep coming: requestAnimationFrame calls animate() back for
\* as long as the page lives. The run is followed until the clock has passed
\* TimeStep * MaxClockSteps and the transition in flight has ended.
FrameDue == now < TimeStep * MaxClockSteps \/ transition # NULL

AnimationFrameLive ==
  /\ FrameDue
  /\ now' = now + TimeStep
  /\ Frame(now + TimeStep)
  /\ \E cur \in {current'} : uLightIntensity' = Follow(uLightIntensity, cur)
  /\ UNCHANGED <<probe, objects, loaded>>

NextLive == (\E key \in Keys : Keydown(key)) \/ AnimationFrameLive

\* the browser never stops scheduling the animation callback while one is
\* due; the callback is the only step that moves the clock, so the
\* condition is put on the clock
SpecLive ==
  Init /\ [][NextLive]_vars /\ WF_now(FrameDue /\ now' = now + TimeStep)

\* ------------------------- commands and frames on the Color objects
KeydownObjects(key) ==
  /\ ncmd < MaxCalls
  /\ Command(key)
  /\ IF KeyMode(key) \in Modes
     THEN /\ colors' = ObjectsAfterCall(colors, Preset(KeyMode(key)))
          /\ refs' = SnapshotRefs
     ELSE UNCHANGED objects
  /\ UNCHANGED <<uLightIntensity, probe, loaded>>

AnimationFrameObjects ==
  /\ now < TimeStep * MaxClockSteps
  /\ now' = now + TimeStep
  /\ Frame(now + TimeStep)
  /\ uLightIntensity' = Follow(uLightIntensity, current')
  /\ colors' = ObjectsAfterFrame(colors, refs, transition, now + TimeStep,
                                 current'.sunColor)
  /\ UNCHANGED <<probe, refs, loaded>>

\* the colour a caller gives a preset's Color object afterwards
Repainted == Color(255, 0, 255)

\* a caller that kept the preset it passed to startTransition changes one
\* of its Color objects in place
MutatePreset(f) ==
  /\ colors[<<"preset", f>>] # Repainted
  /\ colors' = [colors EXCEPT ![<<"preset", f>>] = Repainted]
  /\ hist' = [hist EXCEPT !.op = "mutate", !.first = FALSE]
  /\ UNCHANGED <<now, current, transition, lighting, bindings,
                 uLightIntensity, probe, refs, loaded, ncmd>>

NextClone ==
  \/ \E key \in Keys : KeydownObjects(key)
  \/ AnimationFrameObjects
  \/ \E f \in ColorFields : MutatePreset(f)

SpecClone == Init /\ [][NextClone]_vars

\* ------------------------------------- assets loading between frames
\* the requests followed: one model of each kind with standard materials,
\* two with materials of another class, and the HDR environment
Requests ==
  {[kind |-> k, std |-> TRUE, status |-> "pending"] :
     k \in AssetKinds \cup {"hdr"}}
  \cup {[kind |-> k, std |-> FALSE, status |-> "pending"] :
          k \in {"tower", "building"}}

\* Math.random() * 1000 of the two bridge lamps kept, and the search
\* light's initial hue
Seeds == {<<Lit(0, 1), Lit(4175, 10)>>, <<Lit(3, 1), Lit(9, 10)>>}

InitScene == ModuleLoad /\ probe = NULL /\ asset \in Requests

\* the requests followed to their failure: a model and the HDR environment
InitLoadError ==
  /\ ModuleLoad
  /\ probe = NULL
  /\ asset \in {r \in Requests : r.std /\ r.kind \in {"tower", "hdr"}}

\* the success callback of loadModel, or of the RGBELoader
LoadSucceeds ==
  /\ asset.status = "pending"
  /\ asset' = [asset EXCEPT !.status = "loaded"]
  /\ IF asset.kind = "hdr"
     THEN envMap' = TRUE /\ scene' = scene
     ELSE /\ \E seeds \in IF asset.kind = "bridge" THEN Seeds ELSE {<<>>},
                hue \in {Lit(25, 100)} :
               scene' = Append(scene, LoadedGroup(asset.kind, asset.std,
                                                  lighting, seeds, hue))
          /\ envMap' = envMap
  /\ hist' = [hist EXCEPT !.op = "load", !.first = FALSE]
  /\ UNCHANGED <<now, current, transition, lighting, bindings,
                 uLightIntensity, probe, objects, errors, towerLightState,
                 towerLight, halted, ncmd>>

\* (variant: a failed load puts a placeholder into the scene)
OnLoadErrorPlaceholder(sc) == Append(sc, BuiltInMesh)

\* the scene after an error callback: console.error is all it calls
OnLoadError(sc) == sc

\* the error callback of loadModel or of the RGBELoader: the load is over
LoadFails ==
  /\ asset.status = "pending"
  /\ asset' = [asset EXCEPT !.status = "failed"]
  /\ errors' = errors + 1
  /\ scene' = OnLoadError(scene)
  /\ hist' = [hist EXCEPT !.op = "loaderror", !.first = FALSE]
  /\ UNCHANGED <<now, current, transition, lighting, bindings,
                 uLightIntensity, probe, objects, envMap, towerLightState,
                 towerLight, halted, ncmd>>

\* manager.onError: one file of a model failed, the load goes on
ItemFails ==
  /\ asset.status = "pending"
  /\ asset.kind # "hdr"
  /\ errors = 0
  /\ errors' = errors + 1
  /\ scene' = OnLoadError(scene)
  /\ hist' = [hist EXCEPT !.op = "loaderror", !.first = FALSE]
  /\ UNCHANGED <<now, current, transition, lighting, bindings,
                 uLightIntensity, probe, objects, asset, envMap,
                 towerLightState, towerLight, halted, ncmd>>

KeydownScene(key) == ncmd < MaxCalls /\ Keydown(key)

\* animate() called back TimeStep after the previous callback, with the
\* passes over the scene; no callback follows a frame that threw.
\* clock.getDelta() is 0 on its first call and the seconds since the
\* previous frame afterwards
AnimationFrameScene ==
  /\ ~halted
  /\ now < TimeStep * MaxSceneFrames
  /\ now' = now + TimeStep
  /\ Frame(now + TimeStep)
  /\ \E cur \in {current'} :
     \E delta \in {IF now = 0 THEN Zero
                   ELSE Mul(FromInt(TimeStep), Lit(1, 1000))} :
     \E value \in {TowerFollow(towerLightState, cur, delta)} :
     \E c \in {SceneContext(cur, lighting, value, now + TimeStep)} :
     \E r \in {SceneAfterFrame(scene, c)} :
        /\ uLightIntensity' = Follow(uLightIntensity, cur)
        /\ towerLightState' = value
        /\ towerLight' = Mul(value, MaxPoint(cur))
        /\ scene' = r.scene
        /\ halted' = r.threw
  /\ UNCHANGED <<probe, objects, asset, envMap, errors>>

\* the followed asset loads
NextScene ==
  \/ \E key \in Keys : KeydownScene(key)
  \/ AnimationFrameScene
  \/ LoadSucceeds

SpecScene == InitScene /\ [][NextScene]_vars

\* the bridge model is the followed asset, with up to MaxCommands key
\* presses among the frames
InitBridge ==
  /\ ModuleLoad
  /\ probe = NULL
  /\ asset = [kind |-> "bridge", std |-> TRUE, status |-> "pending"]

NextBridge ==
  \/ \E key \in Keys : Keydown(key)
  \/ AnimationFrameScene
  \/ LoadSucceeds

SpecBridge == InitBridge /\ [][NextBridge]_vars

\* the followed asset fails to load
NextLoadError ==
  \/ \E key \in Keys : KeydownScene(key)
  \/ AnimationFrameScene
  \/ LoadFails
  \/ ItemFails

SpecLoadError == InitLoadError /\ [][NextLoadError]_vars

\* ----------------------------- startTransition called with a duration
\* durations in seconds: none at all, and two positive ones
Durations == {Lit(0, 1), Lit(1, 1), Lit(25, 10)}

CallWithDuration(mode, d) ==
  /\ ncmd < MaxCalls
  /\ transition' = startTransition(transition, current, Preset(mode), d, now)
  /\ ncmd' = ncmd + 1
  /\ hist' = AfterCommand("call", NoKey, mode, {})
  /\ UNCHANGED <<now, current, lighting, bindings, others>>

NextDuration ==
  \/ \E mode \in Modes, d \in Durations : CallWithDuration(mode, d)
  \/ Animate
  \/ ClockStep

SpecDuration == Init /\ [][NextDuration]_vars

\* ------------------------------------------- kelvinToRGB as a function
\* arguments below, inside and above 1000..40000, and the two infinities
KelvinInputs ==
  {FromInt(500 * n) : n \in -2..MaxKelvinSteps} \cup {Infinity, NegInfinity}

InitKelvin ==
  /\ ModuleLoad
  /\ asset = NoAsset
  /\ probe \in {[fn |-> "kelvinToRGB", arg |-> k, done |-> FALSE, out |-> <<>>] :
                  k \in KelvinInputs}

CallKelvinToRGB ==
  /\ ~probe.done
  /\ probe' = [probe EXCEPT !.done = TRUE, !.out = kelvinToRGB(probe.arg)]
  /\ UNCHANGED <<now, current, transition, lighting, bindings,
                 uLightIntensity, objects, loaded, hist, ncmd>>

SpecKelvin == InitKelvin /\ [][CallKelvinToRGB]_vars

\* -------------------------------------- the blend weights on their own
\* the elevations explored: every quarter degree, and the two infinities
Elevations ==
  {Lit(n, 4) : n \in -MaxElevSteps..MaxElevSteps} \cup {Infinity, NegInfinity}

\* animate() reaching its weights with CurrentState at some elevation, the
\* other fields as a preset has them
InitWeights ==
  /\ ModuleLoad
  /\ asset = NoAsset
  /\ probe \in {[fn |-> "weights", arg |-> e, mode |-> m, done |-> FALSE,
                 out |-> <<>>] : e \in Elevations, m \in {"day", "night"}}

CallWeights ==
  /\ ~probe.done
  /\ \E cur \in {[Preset(probe.mode) EXCEPT !.elev = probe.arg]} :
       probe' = [probe EXCEPT !.done = TRUE,
                              !.out = [isNight |-> IsNight(cur),
                                       isSunset |-> IsSunset(cur)]]
  /\ UNCHANGED <<now, current, transition, lighting, bindings,
                 uLightIntensity, objects, loaded, hist, ncmd>>

SpecWeights == InitWeights /\ [][CallWeights]_vars

\* ------------------------------- the window grid of the building shader
\* GLSL step(edge, x)
Step(edge, x) == IF Lt(x, edge) THEN Zero ELSE One

\* the fragment's contribution to totalEmissiveRadiance: noise is
\* random(grid) of the fragment's cell, sub its position inside the cell,
\* normalY the vertical component of its normal
WindowLight(noise, sub, normalY, uTime, intensity, tint) ==
  IF Gt(intensity, Lit(1, 100)) /\ Lt(normalY, Lit(6, 10))
  THEN LET windowShape ==
             Mul(Mul(Mul(Step(Lit(3, 10), sub[1]), Step(Lit(3, 10), sub[2])),
                     Step(sub[1], Lit(9, 10))),
                 Step(sub[2], Lit(9, 10)))
           flicker ==
             Add(Mul(MathSin(Add(Mul(uTime, Lit(5, 10)),
                                 Mul(noise, Lit(6, 1)))),
                     Lit(5, 10)),
                 Lit(5, 10))
           isLit == Step(Lit(4, 10), noise)
       IN [i \in 1..3 |->
             Mul(Mul(Mul(Mul(tint[i], windowShape), isLit), intensity),
                 Lit(3, 1))]
  ELSE <<Zero, Zero, Zero>>

\* the lit/unlit decision of the fragment's cell
IsLit(noise, uTime) == Step(Lit(4, 10), noise)

\* random(grid) = fract(sin(dot(grid, ...)) * 43758.5453123) is one value in
\* [0, 1) per cell, fixed by the cell and the GPU's sine; the explored cells
\* have these
Noises == {Lit(1, 10), Lit(4, 10), Lit(55, 100), Lit(9, 10)}
SubCoords == {Lit(1, 10), Lit(5, 10), Lit(95, 100)}
ShaderTimes == {Mul(FromInt(n), Lit(5, 10)) : n \in 0..MaxShaderSteps}

InitShader ==
  /\ ModuleLoad
  /\ asset = NoAsset
  /\ probe \in {[fn |-> "windowLight", noise |-> n, sub |-> <<x, y>>,
                  normalY |-> ny, uTime |-> Zero, intensity |-> li,
                  tint |-> Color(255, 221, 170),
                  out |-> WindowLight(n, <<x, y>>, ny, Zero, li,
                                      Color(255, 221, 170))] :
                  n \in Noises, x \in SubCoords, y \in SubCoords,
                  ny \in {Zero, One},
                  li \in {Zero, Lit(5, 10), Lit(15, 10)}}

\* the fragment drawn again, half a second of uTime later
ShadeFragment ==
  /\ Lt(probe.uTime, Mul(FromInt(MaxShaderSteps), Lit(5, 10)))
  /\ \E t \in {Add(probe.uTime, Lit(5, 10))} :
       probe' = [probe EXCEPT
                   !.uTime = t,
                   !.out = WindowLight(probe.noise, probe.sub, probe.normalY,
                                       t, probe.intensity, probe.tint)]
  /\ UNCHANGED <<now, current, transition, lighting, bindings,
                 uLightIntensity, objects, loaded, hist, ncmd>>

SpecShader == InitShader /\ [][ShadeFragment]_vars

\* ================================================================ claims
SameFields(r1, r2) == \A f \in PresetFields : r1[f] = r2[f]
IsCommandStep == hist'.op = "key" /\ hist'.key \in {"1", "2", "3"}
IsFrameStep == hist'.op = "tick"
TransitionKeys == {"from", "to", "t0", "dur"}

\* C1: there is one transition slot, and a command issued while a transition
\* is in flight replaces it by a record whose `from` is CurrentState as it is
\* at the call (what the latest frame wrote), started at the time of the call.
C1_CommandStartsFromLive ==
  [][(IsCommandStep /\ transition # NULL) =>
       /\ DOMAIN transition' = TransitionKeys
       /\ transition'.from = current
       /\ transition'.t0 = now]_vars

\* a command issued mid-flight: the new start point is neither end of the
\* discarded transition
C1_Witness ==
  /\ hist.op = "key" /\ hist.inflight /\ hist.pair = "none"
  /\ transition # NULL
  /\ transition.from = current
  /\ transition.from.exposure # InitialCurrent.exposure
  /\ transition.from.exposure # PresetDay.exposure

\* C2: a frame at now = t0 leaves every interpolated field at `from`; the
\* first frame with now - t0 >= dur sets every interpolated field to `to`
\* exactly and clears the transition, which then stays null until a command.
C2_ExactAtBothEnds ==
  [][/\ (IsFrameStep /\ transition # NULL /\ now = transition.t0)
          => SameFields(current', transition.from)
     /\ (IsFrameStep /\ transition # NULL
           /\ Ge(FromInt(now - transition.t0), transition.dur))
          => (SameFields(current', transition.to) /\ transition' = NULL)
     /\ (transition = NULL /\ ~IsCommandStep) => transition' = NULL]_vars

\* C3: the first frame after a command issued mid-flight continues from the
\* last sample: at elapsed time 0 nothing moves, and later every scalar is
\* the last pre-switch sample moved toward the new preset by the new
\* transition's own eased progress.
C3_NoJumpAfterSwitch ==
  [][(IsFrameStep /\ hist.fresh /\ hist.inflight /\ hist.op # "call") =>
       /\ (now = hist.t0 => SameFields(current', current))
       /\ \A f \in ScalarFields :
            current'[f] = lerp(current[f], Preset(hist.mode)[f],
                               smoothstep(Progress(transition, now)))]_vars

\* the first frame after a mid-flight switch, taken at elapsed time 0, with
\* CurrentState strictly inside the discarded transition
C3_Witness ==
  /\ hist.op = "tick" /\ hist.first /\ hist.inflight
  /\ now = hist.t0 /\ hist.mode = "night"
  /\ transition # NULL
  /\ SameFields(current, transition.from)
  /\ current.elev # InitialCurrent.elev
  /\ current.elev # PresetDay.elev

\* C4: whichever field the target of startTransition leaves out, `to` holds
\* the live CurrentState value of that field, and so does CurrentState on
\* every frame of that transition.
C4_OmittedFieldInherits ==
  (hist.omitted # {} /\ transition # NULL) =>
     \A f \in hist.omitted :
        /\ transition.to[f] = transition.from[f]
        /\ current[f] = transition.from[f]

\* C5: after each frame taken while a transition is active, every scalar of
\* CurrentState lies between that transition's `from` and `to`.
C5_WithinEndpoints ==
  [][(IsFrameStep /\ transition # NULL) =>
       \A f \in ScalarFields :
          LET a == transition.from[f]
              b == transition.to[f]
              lo == IF Le(a, b) THEN a ELSE b
              hi == IF Le(a, b) THEN b ELSE a
          IN Le(lo, current'[f]) /\ Le(current'[f], hi)]_vars

\* C6: day then night with no frame in between: every frame at least 3000 ms
\* after the night command, with no later command, shows stars = 1.0, the
\* night elevation and the night fog density.
C6_DayThenNightSettles ==
  (/\ hist.op = "tick" /\ hist.mode = "night" /\ hist.pair = "day"
   /\ now - hist.t0 >= 3000)
  => /\ current.stars = Lit(1, 1)
     /\ current.elev = Lit(-20, 1)
     /\ current.fogDensity = Lit(4, 10000)

\* C7: key '1' starts the day transition (2000 ms), '2' sunset (2500 ms),
\* '3' night (3000 ms); `to` is the preset with every field a number or a
\* colour; any other key starts nothing.
C7_CommandTable ==
  [][hist'.op = "key" =>
       LET k == hist'.key
           p == IF k = "1" THEN PresetDay
                ELSE IF k = "2" THEN PresetSunset ELSE PresetNight
           ms == IF k = "1" THEN 2000 ELSE IF k = "2" THEN 2500 ELSE 3000
       IN IF k \in {"1", "2", "3"}
          THEN /\ transition' # NULL
               /\ transition'.to = p
               /\ transition'.dur = FromInt(ms)
               /\ \A f \in ScalarFields : IsNum(transition'.to[f])
               /\ \A f \in ColorFields :
                    \A i \in 1..3 : IsNum(transition'.to[f][i])
               /\ DOMAIN transition'.to = PresetFields
          ELSE transition' = transition]_vars

\* key '2' pressed: the sunset transition is the active one
C7_Witness ==
  /\ hist.op = "key" /\ hist.key = "2"
  /\ transition # NULL
  /\ transition.to = PresetSunset
  /\ transition.dur = FromInt(2500)
  /\ transition.t0 = now

\* C8: within a frame the advance step comes first: after every frame each
\* binder output and each animator output is the function of the CurrentState
\* that this same frame produced.
C8_ConsumersSeeAdvancedState ==
  hist.op = "tick" =>
    /\ toneMappingExposure = current.exposure
    /\ ambientLight = current.amb
    /\ directionalLight = current.sunInt
    /\ hemi = [intensity |-> current.hemiInt, color |-> current.hemiSky,
               groundColor |-> current.hemiGround]
    /\ (fog = NULL) = ~Gt(current.fogDensity, Zero)
    /\ (fog # NULL => fog.density = current.fogDensity)
    /\ skyUniforms = [turbidity |-> current.turbidity,
                      rayleigh |-> current.rayleigh,
                      mieCoefficient |-> current.mieC,
                      mieDirectionalG |-> current.mieG]
    /\ sunAngles = <<current.elev, current.azim>>
    /\ uOpacity = Mul(current.stars, Lit(13, 10))
    /\ uWindowColor = WindowColor(current)

\* a frame whose advance step moved CurrentState, mid-transition
C8_Witness ==
  /\ hist.op = "tick"
  /\ transition # NULL
  /\ current.exposure # transition.from.exposure
  /\ current.exposure # transition.to.exposure
  /\ toneMappingExposure = current.exposure

\* C9: in every reachable state sunKelvin is in [1000, 40000], stars is in
\* [0, 1], and exposure, amb, sunInt, hemiInt and fogDensity are >= 0.
C9_SemanticRanges ==
  /\ Ge(current.sunKelvin, Lit(1000, 1))
  /\ Le(current.sunKelvin, Lit(40000, 1))
  /\ Ge(current.stars, Zero) /\ Le(current.stars, One)
  /\ \A f \in {"exposure", "amb", "sunInt", "hemiInt", "fogDensity"} :
       Ge(current[f], Zero)

\* a frame past the end of the night transition that was started mid-flight
C9_Witness ==
  /\ hist.op = "tick" /\ hist.mode = "night" /\ hist.inflight
  /\ transition = NULL
  /\ now - hist.t0 > 3000
  /\ current.stars = One

\* C10: the star opacity uniform is CurrentState.stars times 1.3 and nothing
\* else: it holds no state of its own.
C10_StarOpacityTracksStars ==
  uOpacity = Mul(current.stars, Lit(13, 10))

\* a frame in mid-transition: stars strictly between 0 and 1
C10_Witness ==
  /\ hist.op = "tick"
  /\ transition # NULL
  /\ Gt(current.stars, Zero) /\ Lt(current.stars, One)
  /\ uOpacity = Mul(current.stars, Lit(13, 10))
  /\ Gt(uOpacity, current.stars)
\* scene.fog.color: FogExp2 builds its colour from the hex value it is given
FogColor(f) == Color(f.color[1], f.color[2], f.color[3])

\* C11 (as stated): after every frame the fog is present exactly when
\* CurrentState.fogDensity > 0, and then its density and its colour equal
\* CurrentState.fogDensity and CurrentState.fogColor.
C11_FogEqualsCurrent ==
  hist.op = "tick" =>
    /\ (fog # NULL) = Gt(current.fogDensity, Zero)
    /\ fog # NULL => /\ fog.density = current.fogDensity
                     /\ FogColor(fog) = current.fogColor

\* C11 (amended): after every frame the fog is present exactly when
\* CurrentState.fogDensity > 0, and then its density is
\* CurrentState.fogDensity and its colour is the 24-bit colour
\* CurrentState.fogColor.getHex(): each channel rounded to a multiple of 1/255.
C11_FogEqualsCurrentHex ==
  hist.op = "tick" =>
    /\ (fog # NULL) = Gt(current.fogDensity, Zero)
    /\ fog # NULL => /\ fog.density = current.fogDensity
                     /\ fog.color = GetHex(current.fogColor)
                     /\ \A i \in 1..3 : fog.color[i] \in 0..255

\* a frame in mid-transition with fog on, whose fog colour is not on the
\* 8-bit grid
C11_Witness ==
  /\ hist.op = "tick"
  /\ transition # NULL
  /\ fog # NULL
  /\ fog.density = current.fogDensity
  /\ current.fogColor # transition.from.fogColor
  /\ FogColor(fog) # current.fogColor

\* C19: after every frame the sun colour is kelvinToRGB of the biased Kelvin
\* computed from the elevation and sunKelvin that CurrentState holds after
\* that frame (so the bias was not stored into sunKelvin and cannot
\* compound); the biased Kelvin is at most sunKelvin, at least
\* 0.65 x sunKelvin, and is sunKelvin itself for elevations >= 25 or <= -18.
C19_SunColorFromBiasedKelvin ==
  hist.op = "tick" =>
    LET k == current.sunKelvin
        biased == BiasedKelvin(current)
    IN /\ current.sunColor = kelvinToRGB(biased)
       /\ Le(biased, k)
       /\ Ge(biased, Mul(k, Lit(65, 100)))
       /\ (Ge(current.elev, Lit(25, 1)) \/ Le(current.elev, Lit(-18, 1)))
            => biased = k

\* a later frame of the night transition, the sun between -18 and -8: the
\* bias is in force, strictly inside its range
C19_Witness ==
  /\ hist.op = "tick" /\ ~hist.first
  /\ transition # NULL
  /\ hist.mode = "night"
  /\ Lt(current.elev, Lit(-8, 1)) /\ Gt(current.elev, Lit(-18, 1))
  /\ Lt(BiasedKelvin(current), current.sunKelvin)
  /\ Gt(BiasedKelvin(current), Mul(current.sunKelvin, Lit(65, 100)))
  /\ current.sunColor = kelvinToRGB(BiasedKelvin(current))

\* C12: a frame that finds CurrentState as the previous frame left it, and
\* leaves it so, leaves every binder output as it was: exposure, light
\* intensities and colours, fog, sky uniforms and sun angles; the sunset tint
\* of the directional light does not build up from frame to frame.
C12_BinderIdempotent ==
  [][(IsFrameStep /\ hist.op = "tick" /\ current' = current)
       => bindings' = bindings]_vars

\* the sunset preset reached and held for one more frame: the directional
\* light carries the tint, once
C12_Witness ==
  /\ hist.op = "tick" /\ hist.mode = "sunset"
  /\ transition = NULL
  /\ now - hist.t0 >= TimeStep + 2500
  /\ SunsetT(current) = One
  /\ dirColor # current.sunColor
  /\ dirColor = ColorLerp(current.sunColor, <<One, Lit(78, 100), Lit(58, 100)>>,
                          Lit(35, 100))

\* C20: every frame moves the window-intensity uniform once, to
\* value + (target - value) * 0.05 with target = isSunset * 0.5 +
\* isNight * 1.5 taken from the CurrentState that frame produced; no other
\* step writes it.
C20_WindowIntensityFollows ==
  [][\E cur \in {current'} :
       IF IsFrameStep
       THEN uLightIntensity' =
              Add(uLightIntensity,
                  Mul(Sub(Add(Mul(IsSunset(cur), Lit(5, 10)),
                              Mul(IsNight(cur), Lit(15, 10))),
                          uLightIntensity),
                      Lit(5, 100)))
       ELSE uLightIntensity' = uLightIntensity]_vars

\* a later frame on the way to night: the uniform has left 0 and is still
\* short of its target
C20_Witness ==
  /\ hist.op = "tick" /\ ~hist.first /\ hist.mode = "night"
  /\ Gt(IsNight(current), Zero)
  /\ Gt(uLightIntensity, Zero)
  /\ Lt(uLightIntensity, WindowTarget(current))

\* C13: for every number k, below 1000 and above 40000 included,
\* kelvinToRGB(k) has every channel in [0, 1] and is
\* kelvinToRGB(clamp(k, 1000, 40000)).
C13_KelvinClamped ==
  (probe # NULL /\ probe.done) =>
     /\ \A i \in 1..3 : Ge(probe.out[i], Zero) /\ Le(probe.out[i], One)
     /\ probe.out = kelvinToRGB(MUclamp(probe.arg, Lit(1000, 1),
                                        Lit(40000, 1)))

\* a call with an argument below 1000: the colour of 1000 K, full red, some
\* green, no blue
C13_Witness ==
  /\ probe # NULL /\ probe.done
  /\ Lt(probe.arg, Lit(1000, 1))
  /\ probe.out = kelvinToRGB(Lit(1000, 1))
  /\ probe.out[1] = One
  /\ Gt(probe.out[2], Zero) /\ Lt(probe.out[2], One)
  /\ probe.out[3] = Zero

C16_LitFixedFlickerMoves ==
  (probe # NULL /\ probe.fn = "windowLight") =>
     /\ \A t \in ShaderTimes : IsLit(probe.noise, t) = IsLit(probe.noise, Zero)
     /\ (probe.uTime # Zero /\ probe.out # <<Zero, Zero, Zero>>) =>
          \E t \in ShaderTimes :
             WindowLight(probe.noise, probe.sub, probe.normalY, t,
                         probe.intensity, probe.tint) # probe.out

\* C18: the colours held by transition.from and transition.to are not
\* changed by a frame or by a caller changing the preset it passed; they
\* change only when a command replaces the transition, and the record itself
\* only changes by being cleared.
SnapshotColors ==
  [from |-> [f \in SnapFields |-> colors[refs.from[f]]],
   to |-> [f \in ColorFields |-> colors[refs.to[f]]]]
C18_SnapshotsFrozen ==
  [][IsCommandStep \/
     /\ SnapshotColors' = SnapshotColors
     /\ transition' = transition \/ transition' = NULL]_vars
\* a frame has moved CurrentState's colours away from the snapshot, after
\* the caller repainted the preset, with the transition still active
C18_Witness ==
  /\ hist.op = "tick"
  /\ transition # NULL
  /\ colors[<<"preset", "fogColor">>] = Repainted
  /\ colors[refs.to["fogColor"]] = transition.to.fogColor
  /\ colors[refs.to["fogColor"]] # Repainted
  /\ colors[refs.from["hemiSky"]] = transition.from.hemiSky
  /\ colors[<<"cur", "hemiSky">>] = current.hemiSky
  /\ current.hemiSky # transition.from.hemiSky
C15_FailedLoadOnlyLogs ==
  [][/\ hist'.op = "loaderror" =>
          /\ errors' = errors + 1
          /\ UNCHANGED <<now, current, transition, lighting, bindings,
                         uLightIntensity, scene, envMap, towerLightState,
                         towerLight, halted, ncmd>>
     /\ asset'.status = "failed" => (Len(scene') = 1 /\ ~envMap')
    ]_vars
\* frames go on after a model's file and then the model itself failed
C15_Witness ==
  /\ hist.op = "tick"
  /\ asset.status = "failed"
  /\ errors = 2
  /\ transition # NULL
  /\ ~halted

C22_Shares(isSunset, isNight, nightFactor) ==
  Add(IF Gt(isSunset, Lit(1, 10)) THEN Mul(isSunset, Lit(6, 10)) ELSE Zero,
      IF Gt(isNight, Lit(1, 10)) THEN Mul(isNight, nightFactor) ELSE Zero)
\* the glow sprite of every tower shows a quarter of the given intensity
C22_GlowShows(sc, intensity) ==
  \A i \in DOMAIN sc :
    (sc[i].type = "tower" /\ "towerGlow" \in sc[i].has)
      => sc[i].towerGlow.opacity = Mul(intensity, Lit(25, 100))

\* C22 as stated: on every frame the tower's target intensity is
\* isSunset * 0.6 (when isSunset > 0.1) plus
\* isNight * (0.8 + 0.5 * (1 + sin(2 * time))) (when isNight > 0.1); it is
\* what the tower's glow sprite shows a quarter of.
C22_TowerIntensityAsStated ==
  [][\E cur \in {current'}, sine \in {MathSin(Mul(Mul(FromInt(now'),
                                                 Lit(1, 1000)), Lit(2, 1)))} :
       IsFrameStep =>
         C22_GlowShows(scene',
           C22_Shares(IsSunset(cur), IsNight(cur),
                      Add(Lit(8, 10), Mul(Lit(5, 10), Add(One, sine)))))]_vars

\* C22, amended: the night factor is 0.8 + 0.4 * (0.5 * sin(2 * time) + 0.5),
\* that is 1.0 + 0.2 * sin(2 * time).
C22_TowerIntensity ==
  [][\E cur \in {current'}, sine \in {MathSin(Mul(Mul(FromInt(now'),
                                                 Lit(1, 1000)), Lit(2, 1)))} :
       IsFrameStep =>
         C22_GlowShows(scene',
           C22_Shares(IsSunset(cur), IsNight(cur),
                      Add(Lit(8, 10),
                          Mul(Add(Mul(sine, Lit(5, 10)), Lit(5, 10)),
                              Lit(4, 10)))))]_vars

\* a frame at night with a tower in the scene: the glow shows a quarter of
\* the night share alone
C22_Witness ==
  /\ hist.op = "tick"
  /\ Len(scene) = 2 /\ scene[2].type = "tower"
  /\ Gt(IsNight(current), Lit(1, 10))
  /\ ~Gt(IsSunset(current), Lit(1, 10))
  /\ Gt(scene[2].towerGlow.opacity, Lit(2, 10))


\* every emissive material of every tower has the given emissive intensity
\* and every tower glow sprite the given opacity
C23_TowerShows(sc, emissiveIntensity, opacity) ==
  \A i \in DOMAIN sc :
    (sc[i].isGroup /\ sc[i].isTokyoTower) =>
      /\ "towerGlow" \in sc[i].has => sc[i].towerGlow.opacity = opacity
      /\ \A j \in DOMAIN sc[i].mats :
           sc[i].mats[j].emissive # UndefinedColor
             => sc[i].mats[j].emissiveIntensity = emissiveIntensity

\* C23: when a frame is rendered, the tower glow sprite's opacity is
\* clamp(clamp(cur, 0, 1)^2.2 * 0.18, 0, 0.18) and the tower materials'
\* emissive intensity is clamp(cur, 0, 1)^2.0 of the smoothed scalar
\* towerLightState.cur, which this frame moved toward 0.55 when stars > 0.5,
\* else 0.30 when elevation < 6, else 0, by the factor 1 - exp(-2.2 * dt).
C23_TowerShowsSmoothedState ==
  [][\E cur \in {current'},
        dt \in {IF now = 0 THEN Zero
                ELSE Mul(FromInt(TimeStep), Lit(1, 1000))} :
       IsFrameStep =>
         /\ towerLightState' =
              Add(towerLightState,
                  Mul(Sub(IF Gt(cur.stars, Lit(5, 10)) THEN Lit(55, 100)
                          ELSE IF Lt(cur.elev, Lit(6, 1)) THEN Lit(30, 100)
                          ELSE Zero,
                          towerLightState),
                      Sub(One, MathExp(Mul(Neg(Lit(22, 10)), dt)))))
         /\ C23_TowerShows(scene', Shaped(towerLightState'),
                           GlowOpacity(towerLightState'))]_vars


\* every lamp of every bridge of sc has the intensity the claim gives it,
\* from the lamp's intensity in the scene before the frame
C24_LampsFollow(before, sc, base, time) ==
  \A i \in DOMAIN sc :
    (sc[i].type = "bridge" /\ "bridgeLights" \in sc[i].has) =>
      \A k \in DOMAIN sc[i].bridgeLights :
        sc[i].bridgeLights[k].intensity =
          IF Lt(base, Lit(100, 1)) THEN Zero
          ELSE MUlerp(before[i].bridgeLights[k].intensity,
                      LampTarget(base, time,
                                 sc[i].bridgeLights[k].noiseSeed),
                      Lit(2, 10))

\* C24: on every frame the bridge base intensity is
\* (isSunset * 0.2 + isNight * 1.0) * 30000; when it is below 100 every lamp
\* of every bridge is exactly 0 after the frame, so with both weights 0 (the
\* day steady state) all lamps are off; otherwise each lamp is
\* lerp(lamp, base * flicker * pulse * glitch, 0.2).
C24_BridgeLamps ==
  [][\E cur \in {current'},
        time \in {Mul(FromInt(now'), Lit(1, 1000))} :
     \E base \in {Mul(Add(Mul(IsSunset(cur), Lit(2, 10)),
                          Mul(IsNight(cur), One)),
                      Lit(30000, 1))} :
       IsFrameStep =>
         /\ C24_LampsFollow(scene, scene', base, time)
         /\ (IsSunset(cur) = Zero /\ IsNight(cur) = Zero) =>
              \A i \in DOMAIN scene' :
                \A k \in DOMAIN scene'[i].bridgeLights :
                  scene'[i].bridgeLights[k].intensity = Zero]_vars

\* a frame of the way back to day, after frames that had the weights above
\* zero (the window follower is still above zero): the base is below the
\* threshold and the lamps of the bridge are off
C24_Witness ==
  /\ hist.op = "tick" /\ hist.mode = "day"
  /\ Len(scene) = 2 /\ scene[2].type = "bridge"
  /\ Gt(uLightIntensity, Zero)
  /\ Lt(BridgeBase(current), Lit(100, 1))
  /\ \A k \in DOMAIN scene[2].bridgeLights :
       scene[2].bridgeLights[k].intensity = Zero


\* C25: with frames that keep coming and a clock that keeps advancing, after
\* the last command the transition eventually is null and CurrentState
\* equals that command's preset, and both stay so from then on.
C25_SettlesOnPreset ==
  <>[](transition = NULL /\ SameFields(current, Preset(hist.mode)))


\* C26: a key press changes nothing but, for '1', '2' or '3', the
\* transition record and lighting.ibl: CurrentState, every binding, the
\* window uniforms, the smoothed animator states and the scene stay as they
\* are; a call of setTimeOfDay with any other mode changes nothing at all.
C26_CommandFrame ==
  [][hist'.op = "key" =>
       /\ current' = current
       /\ bindings' = bindings
       /\ uLightIntensity' = uLightIntensity
       /\ towerLightState' = towerLightState /\ towerLight' = towerLight
       /\ scene' = scene
       /\ UNCHANGED <<now, objects, asset, envMap, errors, halted>>
       /\ IF hist'.key \in {"1", "2", "3"}
          THEN /\ transition' # NULL /\ transition'.t0 = now
               /\ lighting' = Ibl(KeyMode(hist'.key))
          ELSE transition' = transition /\ lighting' = lighting]_vars

\* a command issued with the bridge lamps lit and the window follower above
\* zero
C26_Witness ==
  /\ hist.op = "key" /\ hist.key \in {"1", "2", "3"}
  /\ hist.fresh
  /\ transition # NULL /\ transition.t0 = now
  /\ Len(scene) = 2 /\ scene[2].type = "bridge"
  /\ Gt(scene[2].bridgeLights[1].intensity, Zero)
  /\ Gt(uLightIntensity, Zero)
  /\ Gt(towerLightState, Zero)


\* C27: after every frame, every MeshStandardMaterial / MeshPhysicalMaterial
\* in the scene has envMapIntensity = lighting.ibl, and lighting.ibl is the
\* value of the latest command (0.55 day, 0.25 sunset, 0.01 night), whatever
\* the material was given at load and however far the transition is.
C27_EnvMapIntensityIsIbl ==
  hist.op = "tick" =>
    /\ lighting = (IF hist.mode = "day" THEN Lit(55, 100)
                   ELSE IF hist.mode = "sunset" THEN Lit(25, 100)
                   ELSE Lit(1, 100))
    /\ \A i \in DOMAIN scene :
         \A j \in DOMAIN scene[i].mats :
           scene[i].mats[j].std => scene[i].mats[j].envMapIntensity = lighting

\* the first frame after the night command, mid-transition, with a model
\* that was boosted at load in the scene
C27_Witness ==
  /\ hist.op = "tick" /\ hist.first /\ hist.mode = "night"
  /\ transition # NULL
  /\ asset.kind \in {"millefiori", "mori"} /\ asset.status = "loaded"
  /\ Len(scene) = 2 /\ scene[2].mats[1].std
  /\ scene[2].mats[1].envMapIntensity = Lit(1, 100)


\* x lies between a and b, whichever of the two is the smaller
C28_Between(a, x, b) ==
  \/ Le(a, x) /\ Le(x, b)
  \/ Le(b, x) /\ Le(x, a)

\* C28: under any sequence of commands and frames the window-intensity
\* uniform stays within [0, 1.5], and the value a frame leaves lies between
\* the value it found and that frame's target isSunset * 0.5 + isNight * 1.5.
C28_WindowIntensityBounded ==
  /\ Ge(uLightIntensity, Zero) /\ Le(uLightIntensity, Lit(15, 10))
  /\ [][\E cur \in {current'} :
          /\ Ge(uLightIntensity', Zero)
          /\ Le(uLightIntensity', Lit(15, 10))
          /\ IsFrameStep =>
               C28_Between(uLightIntensity, uLightIntensity',
                           Add(Mul(IsSunset(cur), Lit(5, 10)),
                               Mul(IsNight(cur), Lit(15, 10))))]_vars

\* a frame on the way back to day: the target is below the uniform, which
\* the frame has lowered without reaching the target
C28_Witness ==
  /\ hist.op = "tick" /\ hist.mode = "day"
  /\ Lt(WindowTarget(current), uLightIntensity)
  /\ Gt(uLightIntensity, Zero)


\* the transition in flight was started by a command issued with no
\* transition active and CurrentState equal to the commanded preset
C29_Reissued ==
  /\ transition # NULL
  /\ ~hist.inflight
  /\ hist.op # "call"
  /\ SameFields(transition.from, transition.to)
  /\ SameFields(transition.to, Preset(hist.mode))

\* C29: a command re-issued with no transition active and CurrentState equal
\* to its preset starts a transition from and to that state, during which
\* every frame leaves every field of CurrentState and every binding as it was
\* before the command, and the first frame at or after its duration clears
\* the transition.
C29_ReissueIsInvisible ==
  [][/\ (/\ IsCommandStep /\ transition = NULL
         /\ SameFields(current, Preset(KeyMode(hist'.key))))
        => (/\ transition' # NULL
            /\ SameFields(transition'.from, current)
            /\ SameFields(transition'.to, current))
     /\ (IsFrameStep /\ C29_Reissued) =>
       /\ current' = current
       /\ SameFields(current', transition.from)
       /\ bindings' = bindings
       /\ Ge(FromInt(now' - transition.t0), transition.dur)
            => transition' = NULL
       /\ Lt(FromInt(now' - transition.t0), transition.dur)
            => transition' = transition]_vars

\* a frame in the middle of a re-issued day command: the progress is strictly
\* between 0 and 1 and CurrentState is the day preset
C29_Witness ==
  /\ hist.op = "tick" /\ hist.mode = "day"
  /\ C29_Reissued
  /\ now > transition.t0
  /\ SameFields(current, PresetDay)


\* C30: while a transition is in flight, every frame leaves each
\* interpolated scalar of CurrentState where the frame before left it or
\* further along from `from` toward `to`, never back; and the raw progress
\* (now - t0) / dur of every frame is at least 0.
C30_MonotoneProgress ==
  [][(IsFrameStep /\ transition # NULL) =>
       /\ now' >= transition.t0
       /\ Ge(Div(FromInt(now' - transition.t0), transition.dur), Zero)
       /\ \A f \in ScalarFields :
            IF Le(transition.from[f], transition.to[f])
            THEN Le(current[f], current'[f])
            ELSE Le(current'[f], current[f])]_vars

\* the second frame of a night transition, 2400 ms in: the elevation is
\* strictly between the two ends
C30_Witness ==
  /\ hist.op = "tick" /\ ~hist.first /\ hist.mode = "night"
  /\ transition # NULL
  /\ now - transition.t0 = 2 * TimeStep
  /\ Lt(current.elev, transition.from.elev)
  /\ Gt(current.elev, transition.to.elev)

==========================================================================
